---- MODULE Spec2Model ----
(***************************************************************************)
(* Port status monitor (email-escalating variant), a React component:      *)
(* a 30 s scheduler runs checkAllPorts, which probes every brand's         *)
(* Brain Net and Live IP endpoints through the check-port function,        *)
(* tracks closedTimestamps / emailSent per endpoint, starts and stops a    *)
(* repeating alarm per endpoint and calls send-email-alert once an         *)
(* endpoint has been closed for 120000 ms.                                 *)
(*                                                                         *)
(* Every checkAllPorts invocation is an async process; a step of the model *)
(* is what JavaScript runs between two awaits.  Time is Date.now() in ms.  *)
(***************************************************************************)
EXTENDS Integers, Sequences, FiniteSets, TLC

(* ------------------------------ bounds --------------------------------- *)
\* the model stops the clock MaxIntervals scheduler periods after mount
MaxIntervals == 6
\* number of checkAllPorts invocations that can be in flight together: when
\* the scheduler's timer is due, one of them has returned
MaxCycles == 2
\* Date.now() at the first render
StartTime == 1500
\* how many times, over all endpoints, a port goes from open to closed or back
MaxFlips == 2
\* the horizon, in scheduler periods, of the runs in which a port stays closed
LiveIntervals == 11

(* -------------------------- program constants -------------------------- *)
INTERVAL == 30000
THRESHOLD == 120000

\* the clock's granularity: Date.now() is read at multiples of the scheduler
\* period after mount; an await takes no time or whole periods
TimeStep == INTERVAL
MaxTime == StartTime + MaxIntervals * INTERVAL
LiveMaxTime == StartTime + LiveIntervals * INTERVAL

\* the registry, restricted to a brand with both addresses and the brand
\* whose Brain Net address is the empty string
BRANDS ==
  << [brand |-> "Bareeze", brain_net_ip |-> "122.129.92.25", live_ip |-> "202.59.94.86"],
     [brand |-> "The Entertainer", brain_net_ip |-> "", live_ip |-> "202.59.94.93"] >>

brandKeys == 1..Len(BRANDS)

IpTypes == {"brainNet", "liveIp"}

\* `${brand}-brainNet`, `${brand}-liveIp`
Key(b, ipType) == <<b, ipType>>

Keys == {Key(b, ipType) : b \in brandKeys, ipType \in IpTypes}

Ip(k) == IF k[2] = "brainNet" THEN BRANDS[k[1]].brain_net_ip ELSE BRANDS[k[1]].live_ip

\* endpoints with a configured host
Configured == {k \in Keys : Ip(k) # ""}

PortStatus == {"checking", "open", "closed", "idle"}

Cycles == 1..MaxCycles

\* JavaScript truthiness of a number-or-undefined map entry; 0 stands for
\* undefined (and the number 0 is falsy as well)
Truthy(x) == x # 0

\* new Date(ms).toLocaleString(): the wall-clock second, milliseconds dropped
ToLocaleString(ms) == ms \div 1000

\* what the check-port invocation can come back with
Responses == {"open", "not_open", "error"}

\* check-port's answer to a request it rejects (status 400); invoke hands a
\* non-2xx answer to checkPort as its error
Rejected == "rejected"

\* checkPort: data.open ? "open" : "closed", any error is "closed"
checkPort(resp) == IF resp = "open" THEN "open" ELSE "closed"

\* how supabase.functions.invoke('send-email-alert') can end: with data, with
\* an error in its result (no response, non-2xx response), or by throwing
InvokeOutcomes == {"ok", "error", "throws"}

\* variant: sendEmailAlert without its try / catch
sendEmailAlert_NoCatch(outcome) == IF outcome = "throws" THEN "rejected" ELSE "resolved"

\* sendEmailAlert: how its promise settles; the error result is not looked
\* at and the catch swallows what is thrown
sendEmailAlert(outcome) == "resolved"

VARIABLES
  now,               \* Date.now()
  phase,             \* "rendered" | "mounted" | "unmounted"
  interval,          \* id of the scheduler's setInterval timer, 0 = none
  nextTick,          \* when that timer fires next
  pc,                \* per cycle: "idle" | "bnProbe" | "liveProbe" | "bnEmail" | "liveEmail"
  cb,                \* per cycle: index of the brand of the for loop
  brainNetResult,    \* per cycle: local of checkAllPorts
  liveIpResult,      \* per cycle: local of checkAllPorts
  closedSince,       \* per cycle: local of checkAllPorts while sendEmailAlert is awaited, -1 = none
  brandStatuses,     \* Keys -> PortStatus (brainNetStatus / liveIpStatus of each brand)
  closedTimestamps,  \* Keys -> ms, 0 = no entry
  emailSent,         \* Keys -> "unset" | "false" | "true"
  alarmIntervals,    \* the React state: Keys -> interval id, 0 = no entry
  alarmTimers,       \* Keys -> set of live interval ids started for the key's alarm
  nextTimerId,       \* Keys -> next id setInterval hands out for the key's alarm
  down,              \* environment: the endpoints whose port is closed
  flips,             \* environment: how often a port has changed so far
  emailCount,        \* history: send-email-alert invocations in the key's current episode
  emailArg,          \* history: the closedSince argument of the last of them, -1 = none
  lastApplied,       \* history: the last result applied to the key, "none" at first
  firstClosedAt,     \* history: time of the first closed result of the episode, 0 = none
  notifierFailed,    \* history: the notifier call of the key's current episode has failed
  inFlight,          \* history: Keys -> the cycles whose probe of the key has been started
                     \* and its result not applied yet, in the order the probes started
  ev,                \* history: what the last step did, a set of <<event, key>>
  request,           \* check-port: the request being served
  cpPc,              \* check-port: "idle" | "received" | "connecting" | "done"
  response,          \* check-port: the answer, status 0 = none yet
  connects,          \* check-port: Deno.connect calls made for the request
  connectTo,         \* check-port: hostname, port and timeout of the connection attempt
  caller,            \* check-port: on whose behalf the request was made
  connect,           \* check-port: Deno.connect's promise, "none" | "pending" | "resolved" | "rejected"
  timer,             \* check-port: the timeout timer, "none" | "pending" | "fired"
  winner,            \* check-port: what settled Promise.race, "none" at first
  conn,              \* check-port: the connection, "none" | "open" | "closed"
  waRequest,         \* send-whatsapp-alert: the request being served
  waPc,              \* send-whatsapp-alert: "idle" | "received" | "sending" | "done"
  accessToken,       \* send-whatsapp-alert: Deno.env.get('WHATSAPP_ACCESS_TOKEN')
  phoneNumberId,     \* send-whatsapp-alert: Deno.env.get('WHATSAPP_PHONE_NUMBER_ID')
  fetches,           \* send-whatsapp-alert: calls of the messaging API for the request
  whatsappResponse,  \* send-whatsapp-alert: how the call of the messaging API ended
  waResponse,        \* send-whatsapp-alert: the answer, status 0 = none yet
  whatsappNumber,    \* WhatsApp monitor: the React state, "" = no destination number
  wmBrandStatuses,   \* WhatsApp monitor: brandStatuses, Keys -> PortStatus
  closedCounts,      \* WhatsApp monitor: the React state, Keys -> count, 0 = no entry or 0
  wmAlarmIntervals,  \* WhatsApp monitor: alarmIntervals, Keys -> interval id, 0 = no entry
  wmAlarmTimers,     \* WhatsApp monitor: Keys -> set of live interval ids of the key's alarm
  wmNextTimerId,     \* WhatsApp monitor: Keys -> next id setInterval hands out for the key
  wmInterval,        \* WhatsApp monitor: id of the scheduler's setInterval timer, 0 = none
  wmStarted,         \* WhatsApp monitor: checkAllPorts invocations started so far
  wmPc,              \* WhatsApp monitor, per cycle: "idle" | "bnProbe" | "liveProbe" |
                     \* "bnNotify" | "liveNotify"
  wmCb,              \* WhatsApp monitor, per cycle: index of the brand of the for loop
  wmBrainNetResult,  \* WhatsApp monitor, per cycle: local of checkAllPorts
  wmLiveIpResult,    \* WhatsApp monitor, per cycle: local of checkAllPorts
  closedRun,         \* history: closed results applied to the key since its last open one
  notified,          \* history: send-whatsapp-alert invocations in the key's current episode
  checkerPhase,      \* single-target checker: "rendered" | "mounted"
  selectedBrand,     \* single-target checker: the React state
  selectedIp,        \* single-target checker: the React state, "" = the brand's host
  checkerPort,       \* single-target checker: the React state port, a string
  checkerStatus,     \* single-target checker: the React state status
  history,           \* single-target checker: the React state, CheckResults, newest first
  checkerTimer,      \* single-target checker: the debounce timer, "none" | "pending"
  checks,            \* single-target checker: the selections of the checks in flight
  selections,        \* single-target checker: selection changes made so far
  clock,             \* single-target checker: checks that have come back (the time of
                     \* new Date(), in completions)
  ownResult,         \* history: status written by the last check that came back for the
                     \* selection now current, "none" if there is none
  checkerEv          \* history: what the last step did, "none" | "completed" | "failed"

wmVars == <<whatsappNumber, wmBrandStatuses, closedCounts, wmAlarmIntervals, wmAlarmTimers,
            wmNextTimerId, wmInterval, wmStarted, wmPc, wmCb, wmBrainNetResult,
            wmLiveIpResult, closedRun, notified>>
scVars == <<checkerPhase, selectedBrand, selectedIp, checkerPort, checkerStatus, history,
            checkerTimer, checks, selections, clock, ownResult, checkerEv>>
waVars == <<waRequest, waPc, accessToken, phoneNumberId, fetches, whatsappResponse, waResponse>>
cpVars == <<request, cpPc, response, connects, connectTo, caller, connect, timer, winner, conn>>
procVars == <<pc, cb, brainNetResult, liveIpResult, closedSince>>
trackVars == <<brandStatuses, closedTimestamps, emailSent, alarmIntervals, alarmTimers,
               nextTimerId, emailCount, emailArg, lastApplied, firstClosedAt,
               notifierFailed, inFlight, ev>>
vars == <<now, phase, interval, nextTick, pc, cb, brainNetResult, liveIpResult, closedSince,
          brandStatuses, closedTimestamps, emailSent, alarmIntervals, alarmTimers,
          nextTimerId, down, flips, emailCount, emailArg, lastApplied, firstClosedAt,
          notifierFailed, inFlight, ev, request, cpPc, response, connects, connectTo, caller,
          connect, timer, winner, conn,
          waRequest, waPc, accessToken, phoneNumberId, fetches, whatsappResponse, waResponse,
          whatsappNumber, wmBrandStatuses, closedCounts, wmAlarmIntervals, wmAlarmTimers,
          wmNextTimerId, wmInterval, wmStarted, wmPc, wmCb, wmBrainNetResult,
          wmLiveIpResult, closedRun, notified,
          checkerPhase, selectedBrand, selectedIp, checkerPort, checkerStatus, history,
          checkerTimer, checks, selections, clock, ownResult, checkerEv>>

(* ------------------------- the tracker's state -------------------------- *)
\* the component's state as one record, so that the synchronous part of a
\* handler can be written as a composition of updates
TrackerNow ==
  [status |-> brandStatuses, cts |-> closedTimestamps, sent |-> emailSent,
   ai |-> alarmIntervals, timers |-> alarmTimers, nid |-> nextTimerId,
   ec |-> emailCount, ea |-> emailArg, la |-> lastApplied, fca |-> firstClosedAt,
   nf |-> notifierFailed, ev |-> {}, awaiting |-> FALSE, arg |-> -1]

\* the alarmIntervals value that startContinuousAlarm, stopContinuousAlarm and
\* the effect's cleanup read: the effect has no dependencies, so it and every
\* checkAllPorts it starts keep the closures of the first render, where
\* alarmIntervals is useState's initial {}
ClosureAlarmIntervals == [k \in Keys |-> 0]

\* interval ids are handles, unique per setInterval call: the n-th timer
\* started for a key's alarm is n
clearInterval(timers, key, id) == [timers EXCEPT ![key] = @ \ {id}]

startContinuousAlarm(T, key) ==
  LET seen == ClosureAlarmIntervals[key]
      live == IF Truthy(seen) THEN clearInterval(T.timers, key, seen) ELSE T.timers
      intervalId == T.nid[key]
  IN  [T EXCEPT !.timers = [live EXCEPT ![key] = @ \cup {intervalId}],
                !.nid = [@ EXCEPT ![key] = intervalId + 1],
                !.ai = [@ EXCEPT ![key] = intervalId],
                !.ev = @ \cup {<<"alarmStart", key>>}]

stopContinuousAlarm(T, key) ==
  LET seen == ClosureAlarmIntervals[key]
  IN  IF Truthy(seen)
      THEN [T EXCEPT !.timers = clearInterval(@, key, seen),
                     !.ai = [@ EXCEPT ![key] = 0],
                     !.ev = @ \cup {<<"alarmStop", key>>}]
      ELSE T

\* variant: the closed timestamp is taken at every closed result
IsNewlyClosed_Always(ts) == TRUE

\* if (!closedTimestamps.current[key])
IsNewlyClosed(ts) == ~Truthy(ts)

\* variants of the escalation test: without the emailSent test, with the
\* scheduler period for the threshold, with > for >=, with the ! dropped
ShouldEscalate_NoDedup(closedDuration, sent) == closedDuration >= THRESHOLD

ShouldEscalate_Early(closedDuration, sent) == closedDuration >= INTERVAL /\ sent # "true"

ShouldEscalate_Strict(closedDuration, sent) == closedDuration > THRESHOLD /\ sent # "true"

ShouldEscalate_NotNegated(closedDuration, sent) == closedDuration >= THRESHOLD /\ sent = "true"

\* if (closedDuration >= 120000 && !emailSent.current[key])
ShouldEscalate(closedDuration, sent) == closedDuration >= THRESHOLD /\ sent # "true"

\* variant: the entry is kept
ClearClosedSince_Kept(cts, key) == cts

\* variant: the entries of both of the brand's endpoints are deleted
ClearClosedSince_WholeBrand(cts, key) == [k \in Keys |-> IF k[1] = key[1] THEN 0 ELSE cts[k]]

\* delete closedTimestamps.current[key]
ClearClosedSince(cts, key) == [cts EXCEPT ![key] = 0]

\* variant: the flag is kept
ClearEmailSent_Kept(sent, key) == sent

\* delete emailSent.current[key]
ClearEmailSent(sent, key) == [sent EXCEPT ![key] = "unset"]

\* "Handle ... status changes" for one endpoint; t is Date.now().  The
\* history fields follow the results applied, not the tracker's own maps: an
\* episode is a maximal run of closed results applied to the key.
HandleClosed(T, key, t) ==
  LET H == [T EXCEPT !.la = [@ EXCEPT ![key] = "closed"],
                     !.fca = [@ EXCEPT ![key] = IF T.la[key] # "closed" THEN t ELSE @]]
      T1 == IF IsNewlyClosed(H.cts[key])
            THEN startContinuousAlarm(
                   [H EXCEPT !.cts = [@ EXCEPT ![key] = t],
                             !.sent = [@ EXCEPT ![key] = "false"],
                             !.ev = @ \cup {<<"openedToClosed", key>>}], key)
            ELSE [H EXCEPT !.ev = @ \cup {<<"stillClosed", key>>}]
      closedDuration == t - T1.cts[key]
  IN  IF ShouldEscalate(closedDuration, T1.sent[key])
      THEN [T1 EXCEPT !.sent = [@ EXCEPT ![key] = "true"],
                      !.ec = [@ EXCEPT ![key] = @ + 1],
                      !.ea = [@ EXCEPT ![key] = ToLocaleString(T1.cts[key])],
                      !.ev = @ \cup {<<"email", key>>},
                      !.awaiting = TRUE,
                      !.arg = ToLocaleString(T1.cts[key])]
      ELSE T1

\* variant: an open result with nothing recorded re-arms the escalation flag
HandleOpen_Rearm(T, key) ==
  LET H == [T EXCEPT !.la = [@ EXCEPT ![key] = "open"],
                     !.fca = [@ EXCEPT ![key] = 0],
                     !.ec = [@ EXCEPT ![key] = 0],
                     !.ea = [@ EXCEPT ![key] = -1],
                     !.nf = [@ EXCEPT ![key] = FALSE]]
  IN  IF Truthy(H.cts[key])
      THEN stopContinuousAlarm(
             [H EXCEPT !.cts = ClearClosedSince(@, key),
                       !.sent = ClearEmailSent(@, key),
                       !.ev = @ \cup {<<"closedToOpen", key>>}], key)
      ELSE [H EXCEPT !.sent = [@ EXCEPT ![key] = "false"],
                     !.ev = @ \cup {<<"stillOpen", key>>}]

HandleOpen(T, key) ==
  LET H == [T EXCEPT !.la = [@ EXCEPT ![key] = "open"],
                     !.fca = [@ EXCEPT ![key] = 0],
                     !.ec = [@ EXCEPT ![key] = 0],
                     !.ea = [@ EXCEPT ![key] = -1],
                     !.nf = [@ EXCEPT ![key] = FALSE]]
  IN  IF Truthy(H.cts[key])
      THEN stopContinuousAlarm(
             [H EXCEPT !.cts = ClearClosedSince(@, key),
                       !.sent = ClearEmailSent(@, key),
                       !.ev = @ \cup {<<"closedToOpen", key>>}
                                \cup (IF T.sent[key] = "true"
                                      THEN {<<"escalationCleared", key>>} ELSE {})], key)
      ELSE [H EXCEPT !.ev = @ \cup {<<"stillOpen", key>>}]

HandleResult(T, key, result, t) ==
  CASE result = "closed" -> HandleClosed(T, key, t)
    [] result = "open"   -> HandleOpen(T, key)
    [] OTHER             -> T

(* ------------------------- checkAllPorts steps -------------------------- *)
\* setBrandStatuses(... brainNetStatus: "checking", liveIpStatus: "checking")
MarkChecking(T, b) ==
  [T EXCEPT !.status = [k \in Keys |-> IF k[1] = b THEN "checking" ELSE @[k]],
            !.ev = @ \cup {<<"checking", Key(b, "brainNet")>>, <<"checking", Key(b, "liveIp")>>}]

\* variant: a skipped probe's "idle" is not written back
SetStatuses_SkipIdle(T, b, bn, live) ==
  [T EXCEPT !.status = [k \in Keys |-> IF k = Key(b, "brainNet") /\ bn # "idle" THEN bn
                                       ELSE IF k = Key(b, "liveIp") THEN live ELSE @[k]],
            !.ev = @ \cup {<<"status", Key(b, "brainNet")>>, <<"status", Key(b, "liveIp")>>}]

\* setBrandStatuses(... brainNetStatus: brainNetResult, liveIpStatus: liveIpResult)
SetStatuses(T, b, bn, live) ==
  [T EXCEPT !.status = [k \in Keys |-> IF k = Key(b, "brainNet") THEN bn
                                       ELSE IF k = Key(b, "liveIp") THEN live ELSE @[k]],
            !.ev = @ \cup {<<"status", Key(b, "brainNet")>>, <<"status", Key(b, "liveIp")>>}]

\* variant: the loop probes without marking the brand checking
BeginBrand_NoMark(T, b) ==
  IF b > Len(BRANDS)
  THEN [T |-> T, pc |-> "idle", cb |-> 0, bn |-> "none"]
  ELSE IF BRANDS[b].brain_net_ip # ""
       THEN [T |-> [T EXCEPT !.ev = @ \cup {<<"probe", Key(b, "brainNet")>>}],
             pc |-> "bnProbe", cb |-> b, bn |-> "none"]
       ELSE [T |-> [T EXCEPT !.ev = @ \cup {<<"probe", Key(b, "liveIp")>>}],
             pc |-> "liveProbe", cb |-> b, bn |-> "idle"]

\* the head of the for loop for brand b, up to its first await; past the
\* last brand the invocation returns
BeginBrand(T, b) ==
  IF b > Len(BRANDS)
  THEN [T |-> T, pc |-> "idle", cb |-> 0, bn |-> "none"]
  ELSE IF BRANDS[b].brain_net_ip # ""
       THEN [T |-> [MarkChecking(T, b) EXCEPT !.ev = @ \cup {<<"probe", Key(b, "brainNet")>>}],
             pc |-> "bnProbe", cb |-> b, bn |-> "none"]
       ELSE [T |-> [MarkChecking(T, b) EXCEPT !.ev = @ \cup {<<"probe", Key(b, "liveIp")>>}],
             pc |-> "liveProbe", cb |-> b, bn |-> "idle"]

\* the tracker update of endpoint k is among the events evs
AppliedIn(evs, k) ==
  {<<"openedToClosed", k>>, <<"stillClosed", k>>, <<"closedToOpen", k>>, <<"stillOpen", k>>}
    \cap evs # {}

\* the probes in flight after a step of cycle c with events evs: a result c
\* applied is no longer in flight, a probe c started is the latest
InFlightAfter(evs, c) ==
  [k \in Keys |->
     LET rest == IF AppliedIn(evs, k) THEN SelectSeq(inFlight[k], LAMBDA d : d # c)
                 ELSE inFlight[k]
     IN  IF <<"probe", k>> \in evs THEN Append(rest, c) ELSE rest]

\* write a tracker record and cycle c's locals back to the variables (the
\* record is bound once, the handler ran once)
Commit(T, c, p, b, bn, live) ==
  \E R \in {T} :
    /\ brandStatuses' = R.status
    /\ closedTimestamps' = R.cts
    /\ emailSent' = R.sent
    /\ alarmIntervals' = R.ai
    /\ alarmTimers' = R.timers
    /\ nextTimerId' = R.nid
    /\ emailCount' = R.ec
    /\ emailArg' = R.ea
    /\ lastApplied' = R.la
    /\ firstClosedAt' = R.fca
    /\ notifierFailed' = R.nf
    /\ ev' = R.ev
    /\ inFlight' = InFlightAfter(R.ev, c)
    /\ pc' = [pc EXCEPT ![c] = p]
    /\ cb' = [cb EXCEPT ![c] = b]
    /\ brainNetResult' = [brainNetResult EXCEPT ![c] = bn]
    /\ liveIpResult' = [liveIpResult EXCEPT ![c] = live]
    /\ closedSince' = [closedSince EXCEPT ![c] = IF R.awaiting THEN R.arg ELSE -1]

CommitBegin(R, c) == \E B \in {R} : Commit(B.T, c, B.pc, B.cb, B.bn, "none")

\* checkAllPorts from the Live IP handling of the current brand on
AfterBrainNet(T, c, live) ==
  \E T3 \in {HandleResult([T EXCEPT !.awaiting = FALSE], Key(cb[c], "liveIp"), live, now)} :
    IF T3.awaiting
    THEN Commit(T3, c, "liveEmail", cb[c], "none", "none")
    ELSE CommitBegin(BeginBrand(T3, cb[c] + 1), c)

(* ------------------- the check-port function: its data ----------------- *)
\* a field of the request body: <<>> when the body does not have it, <<n>>
\* when it is the number n
Undefined == <<>>

\* the function's own registry, brand name -> host, restricted to two brands
CheckPortBRANDS ==
  ("Bareeze" :> "barz.eastgateindustries.com") @@
  ("The Entertainer" :> "te.eastgateindustries.com")

\* names every object inherits from Object.prototype
ObjectPrototype == {"constructor", "toString"}

\* the brands a request can name; "" stands for a missing or empty brand
\* (both falsy)
RequestBrands == {"", "Bareeze", "The Entertainer", "Acme", "constructor"}
RequestPorts == {Undefined} \cup {<<n>> : n \in {-1, 0, 1, 20000, 65535, 65536, 70000}}
RequestTimeouts == {Undefined} \cup {<<n>> : n \in {-5, 0, 1, 3, 30, 31}}
\* "" stands for a missing or empty ip
RequestIps == {"", "122.129.92.25"}

\* { brand, port, timeout, ip } as req.json() yields it
Bodies == [brand : RequestBrands, port : RequestPorts, timeout : RequestTimeouts,
           ip : RequestIps]

\* a request: its method, whether line 66 can take its body apart (req.json()
\* rejects a body that is not JSON, destructuring throws on null), the body
Requests == [method : {"POST", "OPTIONS"}, json : BOOLEAN, body : Bodies]

NoRequest == [method |-> "none", json |-> FALSE,
              body |-> [brand |-> "", port |-> Undefined, timeout |-> Undefined, ip |-> ""]]
NoResponse == [status |-> 0, error |-> "", open |-> FALSE, message |-> ""]
NoConnect == [hostname |-> "", port |-> 0, timeout |-> 0]
NoCaller == [from |-> "none", ipType |-> "none", ip |-> ""]

(* --------------- the send-whatsapp-alert function: its data ------------ *)
\* { phoneNumber, brand, host, port } as req.json() yields it
WaBodies == [phoneNumber : {"", "+923001234567"}, brand : {"Bareeze", "The Entertainer"},
             host : {"122.129.92.25", "202.59.94.93"}, port : {"20000"}]

\* a request: its method, whether its body can be taken apart, the body
WaRequests == [method : {"POST", "OPTIONS"}, json : BOOLEAN, body : WaBodies]

\* what Deno.env.get yields for a credential: undefined when the variable is
\* not set, or its value, which can be the empty string
Credentials == {"undefined", "", "set"}

\* how the call of the messaging API can end: fetch throws, or the API answers
\* with ok or not, with a body that is JSON or not
FetchOutcomes == {"throws", "ok", "okNotJson", "notOk", "notOkNotJson"}

NoWaRequest == [method |-> "none", json |-> FALSE,
                body |-> [phoneNumber |-> "", brand |-> "", host |-> "", port |-> ""]]
NoWaResponse == [status |-> 0, success |-> FALSE, message |-> ""]

\* the answers a probe of the endpoint can come back with
RespFor(k) == IF down[k] THEN Responses \ {"open"} ELSE {"open"}

Init ==
  /\ now = StartTime
  /\ phase = "rendered"
  /\ interval = 0
  /\ nextTick = 0
  /\ pc = [c \in Cycles |-> "idle"]
  /\ cb = [c \in Cycles |-> 0]
  /\ brainNetResult = [c \in Cycles |-> "none"]
  /\ liveIpResult = [c \in Cycles |-> "none"]
  /\ closedSince = [c \in Cycles |-> -1]
  /\ brandStatuses = [k \in Keys |-> "idle"]
  /\ closedTimestamps = [k \in Keys |-> 0]
  /\ emailSent = [k \in Keys |-> "unset"]
  /\ alarmIntervals = [k \in Keys |-> 0]
  /\ alarmTimers = [k \in Keys |-> {}]
  /\ nextTimerId = [k \in Keys |-> 1]
  /\ down = [k \in Keys |-> FALSE]
  /\ flips = 0
  /\ emailCount = [k \in Keys |-> 0]
  /\ emailArg = [k \in Keys |-> -1]
  /\ lastApplied = [k \in Keys |-> "none"]
  /\ firstClosedAt = [k \in Keys |-> 0]
  /\ notifierFailed = [k \in Keys |-> FALSE]
  /\ inFlight = [k \in Keys |-> <<>>]
  /\ ev = {}
  /\ request = NoRequest
  /\ cpPc = "idle"
  /\ response = NoResponse
  /\ connects = 0
  /\ connectTo = NoConnect
  /\ caller = NoCaller
  /\ connect = "none"
  /\ timer = "none"
  /\ winner = "none"
  /\ conn = "none"
  /\ waRequest = NoWaRequest
  /\ waPc = "idle"
  /\ accessToken = "undefined"
  /\ phoneNumberId = "undefined"
  /\ fetches = 0
  /\ whatsappResponse = "none"
  /\ waResponse = NoWaResponse
  /\ whatsappNumber = ""
  /\ wmBrandStatuses = [k \in Keys |-> "idle"]
  /\ closedCounts = [k \in Keys |-> 0]
  /\ wmAlarmIntervals = [k \in Keys |-> 0]
  /\ wmAlarmTimers = [k \in Keys |-> {}]
  /\ wmNextTimerId = [k \in Keys |-> 1]
  /\ wmInterval = 0
  /\ wmStarted = 0
  /\ wmPc = [c \in Cycles |-> "idle"]
  /\ wmCb = [c \in Cycles |-> 0]
  /\ wmBrainNetResult = [c \in Cycles |-> "none"]
  /\ wmLiveIpResult = [c \in Cycles |-> "none"]
  /\ closedRun = [k \in Keys |-> 0]
  /\ notified = [k \in Keys |-> 0]
  /\ checkerPhase = "rendered"
  /\ selectedBrand = "Bareeze"
  /\ selectedIp = ""
  /\ checkerPort = "20000"
  /\ checkerStatus = "idle"
  /\ history = <<>>
  /\ checkerTimer = "none"
  /\ checks = <<>>
  /\ selections = 0
  /\ clock = 0
  /\ ownResult = "none"
  /\ checkerEv = "none"

\* useEffect(() => { checkAllPorts(); setInterval(..., 30000) ... }, [])
MountEffect ==
  /\ phase = "rendered"
  /\ phase' = "mounted"
  /\ LET R == BeginBrand(TrackerNow, 1)
     IN  CommitBegin(R, 1)
  /\ interval' = 1
  /\ nextTick' = now + INTERVAL
  /\ UNCHANGED <<cpVars, waVars, wmVars, scVars, now, down, flips>>

FreeCycle == CHOOSE c \in Cycles : pc[c] = "idle" /\ \A d \in Cycles : pc[d] = "idle" => c <= d

\* the scheduler's timer, as long as it has not been cleared, fires:
\* checkAllPorts()
IntervalTick ==
  /\ Truthy(interval)
  /\ now >= nextTick
  /\ \E c \in Cycles : pc[c] = "idle"
  /\ CommitBegin(BeginBrand(TrackerNow, 1), FreeCycle)
  /\ nextTick' = nextTick + INTERVAL
  /\ UNCHANGED <<cpVars, waVars, wmVars, scVars, now, phase, interval, down, flips>>

\* what the last step records of the answer resp to the probe of key
Answered(resp, key) == IF resp = Rejected THEN {<<"rejected", key>>} ELSE {}

\* await checkPort(brand, brandConfig.brain_net_ip) comes back with one of resps
BrainNetProbeReturns(c, resps) ==
  /\ pc[c] = "bnProbe"
  /\ \E resp \in resps :
       Commit([TrackerNow EXCEPT !.ev = {<<"probe", Key(cb[c], "liveIp")>>}
                                        \cup Answered(resp, Key(cb[c], "brainNet"))],
              c, "liveProbe", cb[c], checkPort(resp), "none")
  /\ UNCHANGED <<cpVars, waVars, wmVars, scVars, now, phase, interval, nextTick, down, flips>>

BrainNetProbeReturn(c) == BrainNetProbeReturns(c, RespFor(Key(cb[c], "brainNet")))

\* await checkPort(brand, brandConfig.live_ip) comes back: statuses are set
\* and the Brain Net result is handled, up to the await of sendEmailAlert
LiveIpProbeReturns(c, resps) ==
  /\ pc[c] = "liveProbe"
  /\ \E resp \in resps :
       LET live == checkPort(resp)
           T1 == SetStatuses([TrackerNow EXCEPT !.ev = Answered(resp, Key(cb[c], "liveIp"))],
                             cb[c], brainNetResult[c], live)
       IN  \E T2 \in {HandleResult(T1, Key(cb[c], "brainNet"), brainNetResult[c], now)} :
             IF T2.awaiting
             THEN Commit(T2, c, "bnEmail", cb[c], "none", live)
             ELSE AfterBrainNet(T2, c, live)
  /\ UNCHANGED <<cpVars, waVars, wmVars, scVars, now, phase, interval, nextTick, down, flips>>

LiveIpProbeReturn(c) == LiveIpProbeReturns(c, RespFor(Key(cb[c], "liveIp")))

\* the tracker after the notifier invocation that cycle c awaited for key has
\* ended with outcome
NotifierReturned(c, key, outcome) ==
  IF outcome = "ok"
  THEN TrackerNow
  ELSE [TrackerNow EXCEPT
          !.nf = [@ EXCEPT ![key] = @ \/ (emailArg[key] = closedSince[c])],
          !.ev = {<<"notifierFailed", key>>}]

\* an exception leaves checkAllPorts: the invocation is over
Reject(T, c) == Commit(T, c, "idle", 0, "none", "none")

\* await sendEmailAlert(... "Brain Net IP" ...) comes back
BrainNetEmailReturn(c) ==
  /\ pc[c] = "bnEmail"
  /\ \E outcome \in InvokeOutcomes :
       \E T \in {NotifierReturned(c, Key(cb[c], "brainNet"), outcome)} :
         IF sendEmailAlert(outcome) = "resolved"
         THEN AfterBrainNet(T, c, liveIpResult[c])
         ELSE Reject(T, c)
  /\ UNCHANGED <<cpVars, waVars, wmVars, scVars, now, phase, interval, nextTick, down, flips>>

\* await sendEmailAlert(... "Live IP" ...) comes back
LiveIpEmailReturn(c) ==
  /\ pc[c] = "liveEmail"
  /\ \E outcome \in InvokeOutcomes :
       \E T \in {NotifierReturned(c, Key(cb[c], "liveIp"), outcome)} :
         IF sendEmailAlert(outcome) = "resolved"
         THEN CommitBegin(BeginBrand(T, cb[c] + 1), c)
         ELSE Reject(T, c)
  /\ UNCHANGED <<cpVars, waVars, wmVars, scVars, now, phase, interval, nextTick, down, flips>>

\* variant: the cleanup leaves the scheduler's timer running
Unmount_KeepsScheduler ==
  /\ phase = "mounted"
  /\ phase' = "unmounted"
  /\ alarmTimers' = [k \in Keys |->
        IF Truthy(ClosureAlarmIntervals[k]) THEN alarmTimers[k] \ {ClosureAlarmIntervals[k]}
        ELSE alarmTimers[k]]
  /\ ev' = {}
  /\ UNCHANGED <<cpVars, waVars, wmVars, scVars, now, interval, nextTick, procVars, brandStatuses, closedTimestamps, emailSent,
                 alarmIntervals, nextTimerId, down, flips, emailCount, emailArg,
                 lastApplied, firstClosedAt, notifierFailed, inFlight>>

\* the effect's cleanup: clearInterval(interval) and clearInterval of every
\* value of the alarmIntervals the cleanup's closure sees
Unmount ==
  /\ phase = "mounted"
  /\ phase' = "unmounted"
  /\ interval' = 0
  /\ alarmTimers' = [k \in Keys |->
        IF Truthy(ClosureAlarmIntervals[k]) THEN alarmTimers[k] \ {ClosureAlarmIntervals[k]}
        ELSE alarmTimers[k]]
  /\ ev' = {}
  /\ UNCHANGED <<cpVars, waVars, wmVars, scVars, now, nextTick, procVars, brandStatuses, closedTimestamps, emailSent,
                 alarmIntervals, nextTimerId, down, flips, emailCount, emailArg,
                 lastApplied, firstClosedAt, notifierFailed, inFlight>>

\* time passes; the scheduler's timer fires when it is due
AdvanceTimeUntil(limit) ==
  /\ phase # "rendered"
  /\ now + TimeStep <= limit
  /\ Truthy(interval) => now + TimeStep <= nextTick
  /\ now' = now + TimeStep
  /\ ev' = {}
  /\ UNCHANGED <<cpVars, waVars, wmVars, scVars, phase, interval, nextTick, procVars, brandStatuses, closedTimestamps,
                 emailSent, alarmIntervals, alarmTimers, nextTimerId, down, flips, emailCount,
                 emailArg, lastApplied, firstClosedAt, notifierFailed, inFlight>>

AdvanceTime == AdvanceTimeUntil(MaxTime)

\* the environment: a configured endpoint's port closes or opens again
EndpointFlip(k) ==
  /\ phase # "rendered"
  /\ flips < MaxFlips
  /\ down' = [down EXCEPT ![k] = ~@]
  /\ flips' = flips + 1
  /\ ev' = {}
  /\ UNCHANGED <<cpVars, waVars, wmVars, scVars, now, phase, interval, nextTick, procVars, brandStatuses, closedTimestamps,
                 emailSent, alarmIntervals, alarmTimers, nextTimerId, emailCount,
                 emailArg, lastApplied, firstClosedAt, notifierFailed, inFlight>>

Next ==
  \/ MountEffect
  \/ IntervalTick
  \/ \E c \in Cycles : BrainNetProbeReturn(c)
  \/ \E c \in Cycles : LiveIpProbeReturn(c)
  \/ \E c \in Cycles : BrainNetEmailReturn(c)
  \/ \E c \in Cycles : LiveIpEmailReturn(c)
  \/ AdvanceTime
  \/ \E k \in Configured : EndpointFlip(k)

Spec == Init /\ [][Next]_vars

\* the same with the component's unmount
NextUnmount == Next \/ Unmount

SpecUnmount == Init /\ [][NextUnmount]_vars

(* ---------------- runs in which a port closes and stays closed ---------- *)
LiveAdvanceTime == AdvanceTimeUntil(LiveMaxTime)

\* what an endpoint that stays closed needs, at most, to be escalated
LiveMargin == THRESHOLD + (2 * MaxCycles + 2) * INTERVAL

\* one port closes, once, early enough, and answers closed from then on
PortCloses(k) == flips = 0 /\ EndpointFlip(k)

CycleStep(c) ==
  \/ BrainNetProbeReturn(c)
  \/ LiveIpProbeReturn(c)
  \/ BrainNetEmailReturn(c)
  \/ LiveIpEmailReturn(c)

LiveNext ==
  \/ LiveAdvanceTime
  \/ \E k \in Configured : PortCloses(k)
  \/ MountEffect
  \/ IntervalTick
  \/ \E c \in Cycles : CycleStep(c)

\* the effect runs after the first render, timers fire when due, time passes,
\* and every probe and notifier invocation comes back: the run does not stop
\* while a step is possible (every step moves the clock or a cycle forward, so
\* this is as strong here as fairness of each action on its own)
LiveSpec == Init /\ [][LiveNext]_vars /\ WF_vars(LiveNext)

(* ------------- runs in which check-port rejects a probe request --------- *)
\* the deployed check-port function has a registry of its own; it answers 400
\* to a probe of a brand its registry does not have, here the first brand
\* of the monitor's registry
UnknownToCheckPort == {1}

BrainNetProbeRejected(c) ==
  cb[c] \in UnknownToCheckPort /\ BrainNetProbeReturns(c, {Rejected})
LiveIpProbeRejected(c) ==
  cb[c] \in UnknownToCheckPort /\ LiveIpProbeReturns(c, {Rejected})

\* every port stays open; the probes of a brand check-port knows are
\* answered, those of a brand it does not know are answered or rejected
\* (the function can be redeployed with another registry at any time)
NextRejected ==
  \/ MountEffect
  \/ IntervalTick
  \/ \E c \in Cycles : CycleStep(c)
  \/ AdvanceTime
  \/ \E c \in Cycles : BrainNetProbeRejected(c)
  \/ \E c \in Cycles : LiveIpProbeRejected(c)

SpecRejected == Init /\ [][NextRejected]_vars

(* ------------------------ the check-port function ----------------------- *)
monitorVars == <<now, phase, interval, nextTick, procVars, trackVars, down, flips>>

\* BRANDS[brand]: the registry's entry, a property every object inherits,
\* or undefined
BrandsLookup(brand) ==
  IF brand \in DOMAIN CheckPortBRANDS THEN "entry"
  ELSE IF brand \in ObjectPrototype THEN "inherited"
  ELSE "undefined"

\* !brand || !BRANDS[brand]
InvalidBrand(brand) == brand = "" \/ BrandsLookup(brand) = "undefined"

\* ip || BRANDS[brand].host; an inherited property has no host
Host(body) ==
  IF body.ip # "" THEN body.ip
  ELSE IF BrandsLookup(body.brand) = "entry" THEN CheckPortBRANDS[body.brand]
  ELSE "undefined"

\* variant: the port test without its upper limit
InvalidPort_NoUpperLimit(port) == port = Undefined \/ port[1] = 0 \/ port[1] < 1

\* !port || port < 1 || port > 65535
InvalidPort(port) == port = Undefined \/ port[1] = 0 \/ port[1] < 1 \/ port[1] > 65535

Min(a, b) == IF a < b THEN a ELSE b
Max(a, b) == IF a > b THEN a ELSE b

\* variant: the timeout in ms as given, not clamped
TimeoutMs_NotClamped(timeout) == IF timeout = Undefined THEN 3000 ELSE timeout[1] * 1000

\* timeout = 3 by default; Math.min(Math.max(timeout * 1000, 1000), 30000)
TimeoutMs(timeout) ==
  LET t == IF timeout = Undefined THEN 3 ELSE timeout[1]
  IN Min(Max(t * 1000, 1000), 30000)

\* the registry entries the monitor can hold: the shipped ones have a live_ip
\* and all but one a brain_net_ip; either field is a string that can be empty
BrandConfigs == [brand : DOMAIN CheckPortBRANDS, brain_net_ip : RequestIps,
                 live_ip : RequestIps]

\* the body checkPort(brand, ip) sends
checkPortBody(brand, ip) ==
  [brand |-> brand, port |-> <<20000>>, timeout |-> <<3>>, ip |-> ip]

\* the probes checkAllPorts issues for a brand: the Brain Net one unless
\* brain_net_ip is empty, the Live IP one
ProbesIssued(brandConfig) ==
  (IF brandConfig.brain_net_ip # "" THEN {"brainNet"} ELSE {}) \cup {"liveIp"}

IpOf(brandConfig, ipType) ==
  IF ipType = "brainNet" THEN brandConfig.brain_net_ip ELSE brandConfig.live_ip

Arrives(req, who) ==
  /\ cpPc = "idle"
  /\ request' = req
  /\ caller' = who
  /\ cpPc' = "received"
  /\ response' = NoResponse
  /\ connects' = 0
  /\ connectTo' = NoConnect
  /\ UNCHANGED <<connect, timer, winner, conn, monitorVars, waVars, wmVars, scVars>>

\* checkAllPorts invokes check-port for an endpoint of a brand
MonitorInvokes(brandConfig, ipType) ==
  /\ ipType \in ProbesIssued(brandConfig)
  /\ Arrives([method |-> "POST", json |-> TRUE,
              body |-> checkPortBody(brandConfig.brand, IpOf(brandConfig, ipType))],
             [from |-> "monitor", ipType |-> ipType, ip |-> IpOf(brandConfig, ipType)])

\* any other client sends a request
ClientRequest(req) ==
  Arrives(req, [from |-> "client", ipType |-> "none", ip |-> req.body.ip])

Answer(status, error) ==
  /\ response' = [NoResponse EXCEPT !.status = status, !.error = error]
  /\ cpPc' = "done"
  /\ UNCHANGED <<connects, connectTo, connect, timer>>

\* the handler up to its await of checkPortConnection
ServeRequest ==
  /\ cpPc = "received"
  /\ IF request.method = "OPTIONS" THEN Answer(200, "")
     ELSE IF ~request.json THEN Answer(500, "Internal server error")
     ELSE IF InvalidBrand(request.body.brand) THEN Answer(400, "Unknown or missing brand")
     ELSE IF InvalidPort(request.body.port) THEN Answer(400, "Invalid port number")
     ELSE /\ connects' = connects + 1
          /\ connectTo' = [hostname |-> Host(request.body), port |-> request.body.port[1],
                           timeout |-> TimeoutMs(request.body.timeout)]
          /\ connect' = "pending"
          /\ timer' = "pending"
          /\ cpPc' = "connecting"
          /\ UNCHANGED response
  /\ UNCHANGED <<request, caller, winner, conn, monitorVars, waVars, wmVars, scVars>>

\* how the race of Deno.connect and the timer ends
ConnectOutcomes == {"connected", "timeout", "error"}

\* variant: checkPortConnection without its try / catch
checkPortConnection_NoCatch(outcome) ==
  [threw |-> outcome # "connected", open |-> outcome = "connected",
   message |-> "Successfully connected"]

\* checkPortConnection's result when outcome settles the race: the try block
\* returns after conn.close(), the catch block returns for either rejection
checkPortConnection(outcome) ==
  CASE outcome = "connected" ->
         [threw |-> FALSE, open |-> TRUE, message |-> "Successfully connected"]
    [] outcome = "timeout" ->
         [threw |-> FALSE, open |-> FALSE, message |-> "Connection timed out"]
    [] outcome = "error" ->
         [threw |-> FALSE, open |-> FALSE, message |-> "Connection error"]

\* the race is settled by outcome: checkPortConnection returns and the handler
\* answers with its result (with status 500 from its catch, had it thrown)
ConnectionSettles(outcome) ==
  /\ cpPc = "connecting"
  /\ winner = "none"
  /\ winner' = outcome
  /\ response' = IF checkPortConnection(outcome).threw
                 THEN [NoResponse EXCEPT !.status = 500, !.error = "Internal server error"]
                 ELSE [status |-> 200, error |-> "",
                       open |-> checkPortConnection(outcome).open,
                       message |-> checkPortConnection(outcome).message]
  /\ cpPc' = "done"

\* Deno.connect's promise resolves with the connection: if the race is still
\* open the await continues and conn.close() is called, otherwise nobody gets
\* the connection
ConnectResolves ==
  /\ connect = "pending"
  /\ connect' = "resolved"
  /\ IF winner = "none"
     THEN conn' = "closed" /\ ConnectionSettles("connected")
     ELSE conn' = "open" /\ UNCHANGED <<winner, response, cpPc>>
  /\ UNCHANGED <<request, caller, connects, connectTo, timer, monitorVars, waVars, wmVars, scVars>>

\* variant: a rejected connect is tried once more
ConnectRejects_Retried ==
  /\ connect = "pending"
  /\ IF winner = "none" /\ connects < 2
     THEN connects' = connects + 1 /\ UNCHANGED <<connect, winner, response, cpPc>>
     ELSE /\ connect' = "rejected"
          /\ IF winner = "none"
             THEN ConnectionSettles("error")
             ELSE UNCHANGED <<winner, response, cpPc>>
          /\ UNCHANGED connects
  /\ UNCHANGED <<request, caller, connectTo, timer, conn, monitorVars, waVars, wmVars, scVars>>

\* Deno.connect's promise rejects (refused, unreachable, DNS failure)
ConnectRejects ==
  /\ connect = "pending"
  /\ connect' = "rejected"
  /\ IF winner = "none"
     THEN ConnectionSettles("error")
     ELSE UNCHANGED <<winner, response, cpPc>>
  /\ UNCHANGED <<request, caller, connects, connectTo, timer, conn, monitorVars, waVars, wmVars, scVars>>

\* variant: the timer's rejection does not settle the race
TimerFires_NotRaced ==
  /\ timer = "pending"
  /\ timer' = "fired"
  /\ UNCHANGED <<winner, response, cpPc>>
  /\ UNCHANGED <<request, caller, connects, connectTo, connect, conn, monitorVars, waVars, wmVars, scVars>>

\* the setTimeout callback runs: reject(new Error('Connection timeout'))
TimerFires ==
  /\ timer = "pending"
  /\ timer' = "fired"
  /\ IF winner = "none"
     THEN ConnectionSettles("timeout")
     ELSE UNCHANGED <<winner, response, cpPc>>
  /\ UNCHANGED <<request, caller, connects, connectTo, connect, conn, monitorVars, waVars, wmVars, scVars>>

\* the response is out and the request's timer is gone (it is never cleared,
\* so it fires); the function serves the next request.  A connect still
\* pending then never settles.
ResponseSent ==
  /\ cpPc = "done"
  /\ timer # "pending"
  /\ cpPc' = "idle"
  /\ request' = NoRequest
  /\ response' = NoResponse
  /\ connects' = 0
  /\ connectTo' = NoConnect
  /\ caller' = NoCaller
  /\ connect' = "none"
  /\ timer' = "none"
  /\ winner' = "none"
  /\ conn' = "none"
  /\ UNCHANGED <<monitorVars, waVars, wmVars, scVars>>

CheckPortNext ==
  \/ \E brandConfig \in BrandConfigs, ipType \in IpTypes : MonitorInvokes(brandConfig, ipType)
  \/ \E req \in Requests : ClientRequest(req)
  \/ ServeRequest
  \/ ConnectResolves
  \/ ConnectRejects
  \/ TimerFires
  \/ ResponseSent

CheckPortSpec == Init /\ [][CheckPortNext]_vars

\* a timer that has been set fires: setTimeout's callback runs once its delay
\* has passed, whatever the connect does
CheckPortLiveSpec == Init /\ [][CheckPortNext]_vars /\ WF_vars(TimerFires)

(* ------------------- the send-whatsapp-alert function ------------------- *)
notWaVars == <<monitorVars, cpVars, wmVars, scVars>>

\* variant: the message is sent unless both credentials are missing
CredentialsMissing_Both(token, id) == token \in {"undefined", ""} /\ id \in {"undefined", ""}

\* !accessToken || !phoneNumberId
CredentialsMissing(token, id) == token \in {"undefined", ""} \/ id \in {"undefined", ""}

\* a request arrives; the function's environment has token and id
WaArrives(req, token, id) ==
  /\ waPc = "idle"
  /\ waRequest' = req
  /\ accessToken' = token
  /\ phoneNumberId' = id
  /\ waPc' = "received"
  /\ fetches' = 0
  /\ whatsappResponse' = "none"
  /\ waResponse' = NoWaResponse
  /\ UNCHANGED notWaVars

WaAnswer(status, success, message) ==
  /\ waResponse' = [status |-> status, success |-> success, message |-> message]
  /\ waPc' = "done"

\* the handler up to its await of fetch
WaServe ==
  /\ waPc = "received"
  /\ IF waRequest.method = "OPTIONS"
     THEN WaAnswer(200, FALSE, "") /\ UNCHANGED fetches
     ELSE IF ~waRequest.json
     THEN WaAnswer(500, FALSE, "Unknown error") /\ UNCHANGED fetches
     ELSE IF CredentialsMissing(accessToken, phoneNumberId)
     THEN WaAnswer(200, TRUE, "WhatsApp not configured, but alert logged") /\ UNCHANGED fetches
     ELSE /\ fetches' = fetches + 1
          /\ waPc' = "sending"
          /\ UNCHANGED waResponse
  /\ UNCHANGED <<waRequest, accessToken, phoneNumberId, whatsappResponse, notWaVars>>

\* the call of the messaging API ends: whatsappResponse.json() is awaited
\* first, then whatsappResponse.ok is tested; whatever is thrown is answered
\* by the catch
WaFetchReturns(outcome) ==
  /\ waPc = "sending"
  /\ whatsappResponse' = outcome
  /\ IF outcome = "ok"
     THEN WaAnswer(200, TRUE, "")
     ELSE WaAnswer(500, FALSE,
                   IF outcome = "notOk" THEN "Failed to send WhatsApp message" ELSE "Unknown error")
  /\ UNCHANGED <<waRequest, accessToken, phoneNumberId, fetches, notWaVars>>

\* the response is out; the function serves the next request
WaResponseSent ==
  /\ waPc = "done"
  /\ waPc' = "idle"
  /\ waRequest' = NoWaRequest
  /\ fetches' = 0
  /\ whatsappResponse' = "none"
  /\ waResponse' = NoWaResponse
  /\ UNCHANGED <<accessToken, phoneNumberId, notWaVars>>

WhatsAppNext ==
  \/ \E req \in WaRequests, token \in Credentials, id \in Credentials : WaArrives(req, token, id)
  \/ WaServe
  \/ \E outcome \in FetchOutcomes : WaFetchReturns(outcome)
  \/ WaResponseSent

WhatsAppSpec == Init /\ [][WhatsAppNext]_vars

(* -------------------- runs in which every await returns ----------------- *)
\* every probe the monitor awaits comes back (check-port answers by its
\* timeout at the latest, a failed invocation is an error) and so does every
\* notifier invocation; nothing is assumed of the clock and the timers.  The
\* runs are those in which a port closes and stays closed: its probes fail
\* from then on and the notifier is invoked, with any outcome
FairSpec == Init /\ [][LiveNext]_vars /\ \A c \in Cycles : WF_vars(CycleStep(c))

(* ------------------- the WhatsApp-alerting monitor ---------------------- *)
\* The status monitor of components/PortChecker.tsx that counts an
\* endpoint's closed results and alerts through send-whatsapp-alert.  Its
\* registry is BRANDS, its probe is checkPort; it has no clock of its own
\* apart from the 30 s scheduler, whose timer can fire while a cycle runs.

\* checkAllPorts invocations a run starts
MaxWmCycles == 3

\* what whatsappNumber holds: useState's initial "" as shipped (nothing in
\* the component calls setWhatsappNumber), a number where one is configured
WhatsappNumbers == {"", "+923001234567"}

\* the closedCounts and alarmIntervals that checkAllPorts and the functions it
\* calls read: the effect depends on whatsappNumber alone, which does not
\* change, so every cycle runs with the closures of the first render, where
\* both are useState's initial {}
ClosureClosedCounts == [k \in Keys |-> 0]
ClosureWmAlarmIntervals == [k \in Keys |-> 0]

\* the component's state as one record
MonitorNow ==
  [status |-> wmBrandStatuses, counts |-> closedCounts, ai |-> wmAlarmIntervals,
   timers |-> wmAlarmTimers, nid |-> wmNextTimerId, run |-> closedRun, sent |-> notified,
   awaiting |-> FALSE]

\* startContinuousAlarm(key, alarmType)
StartAlarm(W, key) ==
  LET seen == ClosureWmAlarmIntervals[key]
      live == IF Truthy(seen) THEN clearInterval(W.timers, key, seen) ELSE W.timers
      intervalId == W.nid[key]
  IN  [W EXCEPT !.timers = [live EXCEPT ![key] = @ \cup {intervalId}],
                !.nid = [@ EXCEPT ![key] = intervalId + 1],
                !.ai = [@ EXCEPT ![key] = intervalId]]

\* stopContinuousAlarm(key)
StopAlarm(W, key) ==
  LET seen == ClosureWmAlarmIntervals[key]
  IN  IF Truthy(seen)
      THEN [W EXCEPT !.timers = clearInterval(@, key, seen), !.ai = [@ EXCEPT ![key] = 0]]
      ELSE W

\* (closedCounts[key] || 0) + 1
NewCount(counts, key) == (IF Truthy(counts[key]) THEN counts[key] ELSE 0) + 1

\* if (!whatsappNumber) return; otherwise the notifier is invoked and awaited
sendWhatsAppNotification(number) == IF number = "" THEN "returned" ELSE "invoked"

\* the closed branch of "Handle ... status changes", up to the await of the
\* notifier invocation.  The history fields follow the results applied: an
\* episode is a maximal run of closed results applied to the key.
CountClosed(W, key) ==
  LET newCount == NewCount(ClosureClosedCounts, key)
      W1 == StartAlarm([W EXCEPT !.counts = [@ EXCEPT ![key] = newCount],
                                 !.run = [@ EXCEPT ![key] = @ + 1]], key)
  IN  IF sendWhatsAppNotification(whatsappNumber) = "invoked"
      THEN [W1 EXCEPT !.sent = [@ EXCEPT ![key] = @ + 1], !.awaiting = TRUE]
      ELSE W1

\* the open branch: if (closedCounts[key] && closedCounts[key] > 0) the
\* count is reset and the alarm stopped
CountOpen(W, key) ==
  LET H == [W EXCEPT !.run = [@ EXCEPT ![key] = 0], !.sent = [@ EXCEPT ![key] = 0]]
  IN  IF Truthy(ClosureClosedCounts[key]) /\ ClosureClosedCounts[key] > 0
      THEN StopAlarm([H EXCEPT !.counts = [@ EXCEPT ![key] = 0]], key)
      ELSE H

CountResult(W, key, result) ==
  CASE result = "closed" -> CountClosed(W, key)
    [] result = "open"   -> CountOpen(W, key)
    [] OTHER             -> W

\* the head of the for loop for brand b, up to its first await; past the
\* last brand the invocation returns
BeginCheck(W, b) ==
  IF b > Len(BRANDS)
  THEN [W |-> W, pc |-> "idle", cb |-> 0, bn |-> "none"]
  ELSE [W |-> [W EXCEPT !.status = [k \in Keys |-> IF k[1] = b THEN "checking" ELSE @[k]]],
        pc |-> IF BRANDS[b].brain_net_ip # "" THEN "bnProbe" ELSE "liveProbe",
        cb |-> b,
        bn |-> IF BRANDS[b].brain_net_ip # "" THEN "none" ELSE "idle"]

\* write a record and cycle c's locals back to the variables
MonitorCommit(W, c, p, b, bn, live) ==
  \E R \in {W} :
    /\ wmBrandStatuses' = R.status
    /\ closedCounts' = R.counts
    /\ wmAlarmIntervals' = R.ai
    /\ wmAlarmTimers' = R.timers
    /\ wmNextTimerId' = R.nid
    /\ closedRun' = R.run
    /\ notified' = R.sent
    /\ wmPc' = [wmPc EXCEPT ![c] = p]
    /\ wmCb' = [wmCb EXCEPT ![c] = b]
    /\ wmBrainNetResult' = [wmBrainNetResult EXCEPT ![c] = bn]
    /\ wmLiveIpResult' = [wmLiveIpResult EXCEPT ![c] = live]

MonitorCommitBegin(R, c) == \E B \in {R} : MonitorCommit(B.W, c, B.pc, B.cb, B.bn, "none")

notWmVars == <<monitorVars, cpVars, waVars, scVars>>

\* useEffect(() => { checkAllPorts(); setInterval(..., 30000) ... }, [whatsappNumber])
\* after the first render, in a component whose whatsappNumber is number
MonitorMountEffect(number) ==
  /\ wmInterval = 0
  /\ wmStarted = 0
  /\ whatsappNumber' = number
  /\ wmInterval' = 1
  /\ wmStarted' = 1
  /\ MonitorCommitBegin(BeginCheck(MonitorNow, 1), 1)
  /\ UNCHANGED notWmVars

MonitorFreeCycle ==
  CHOOSE c \in Cycles : wmPc[c] = "idle" /\ \A d \in Cycles : wmPc[d] = "idle" => c <= d

\* the scheduler's timer fires, whether or not a cycle is running
MonitorIntervalTick ==
  /\ Truthy(wmInterval)
  /\ wmStarted < MaxWmCycles
  /\ \E c \in Cycles : wmPc[c] = "idle"
  /\ wmStarted' = wmStarted + 1
  /\ MonitorCommitBegin(BeginCheck(MonitorNow, 1), MonitorFreeCycle)
  /\ UNCHANGED <<whatsappNumber, wmInterval, notWmVars>>

\* checkAllPorts from the Live IP handling of the current brand on
AfterBrainNetCount(W, c, live) ==
  \E W3 \in {CountResult([W EXCEPT !.awaiting = FALSE], Key(wmCb[c], "liveIp"), live)} :
    IF W3.awaiting
    THEN MonitorCommit(W3, c, "liveNotify", wmCb[c], "none", "none")
    ELSE MonitorCommitBegin(BeginCheck(W3, wmCb[c] + 1), c)

\* await checkPort(brand, brandConfig.brain_net_ip) comes back
MonitorBrainNetProbeReturn(c) ==
  /\ wmPc[c] = "bnProbe"
  /\ \E resp \in Responses :
       MonitorCommit(MonitorNow, c, "liveProbe", wmCb[c], checkPort(resp), "none")
  /\ UNCHANGED <<whatsappNumber, wmInterval, wmStarted, notWmVars>>

\* await checkPort(brand, brandConfig.live_ip) comes back: statuses are set
\* and the Brain Net result is handled, up to the await of the notifier
MonitorLiveIpProbeReturn(c) ==
  /\ wmPc[c] = "liveProbe"
  /\ \E resp \in Responses :
       LET live == checkPort(resp)
           W1 == [MonitorNow EXCEPT !.status =
                    [k \in Keys |-> IF k = Key(wmCb[c], "brainNet") THEN wmBrainNetResult[c]
                                    ELSE IF k = Key(wmCb[c], "liveIp") THEN live ELSE @[k]]]
       IN  \E W2 \in {CountResult(W1, Key(wmCb[c], "brainNet"), wmBrainNetResult[c])} :
             IF W2.awaiting
             THEN MonitorCommit(W2, c, "bnNotify", wmCb[c], "none", live)
             ELSE AfterBrainNetCount(W2, c, live)
  /\ UNCHANGED <<whatsappNumber, wmInterval, wmStarted, notWmVars>>

\* await sendWhatsAppNotification(... "Brain Net IP") comes back; whatever the
\* invocation's outcome, its try / catch leaves nothing to the caller
MonitorBrainNetNotifyReturn(c) ==
  /\ wmPc[c] = "bnNotify"
  /\ AfterBrainNetCount(MonitorNow, c, wmLiveIpResult[c])
  /\ UNCHANGED <<whatsappNumber, wmInterval, wmStarted, notWmVars>>

\* await sendWhatsAppNotification(... "Live IP") comes back
MonitorLiveIpNotifyReturn(c) ==
  /\ wmPc[c] = "liveNotify"
  /\ MonitorCommitBegin(BeginCheck(MonitorNow, wmCb[c] + 1), c)
  /\ UNCHANGED <<whatsappNumber, wmInterval, wmStarted, notWmVars>>

MonitorNext ==
  \/ \E number \in WhatsappNumbers : MonitorMountEffect(number)
  \/ MonitorIntervalTick
  \/ \E c \in Cycles : MonitorBrainNetProbeReturn(c)
  \/ \E c \in Cycles : MonitorLiveIpProbeReturn(c)
  \/ \E c \in Cycles : MonitorBrainNetNotifyReturn(c)
  \/ \E c \in Cycles : MonitorLiveIpNotifyReturn(c)

MonitorSpec == Init /\ [][MonitorNext]_vars

(* ------------------------ the single-target checker --------------------- *)
\* The PortChecker component that checks one selected target: a change of
\* the selection (brand, port, ip) re-runs the debounced effect, whose timer
\* callback makes one check and shows its result.

\* selection changes a run makes
MaxSelections == 3
\* checks in flight at a time
MaxChecksInFlight == 2
\* selection changes in the runs that fill the history
HistorySelections == 11

\* prev.slice(0, 9)
HistoryKept == 9

\* BRANDS[brand].host of the brands offered
CheckerBRANDS ==
  ("Bareeze" :> "barz.eastgateindustries.com") @@ ("The Entertainer" :> "te.eastgateindustries.com")

\* BRANDS[brand].default_port.toString()
DefaultPort(brand) == "20000"

\* the values of IP_OPTIONS and what the port input can hold
IpOptions == {"", "192.168.1.122"}
PortInputs == {"", "20000", "443"}

CheckerSelection == [brand |-> selectedBrand, port |-> checkerPort, ip |-> selectedIp]

\* checkPort(brand, portNumber, ip): "open" or "closed" from data.open; an
\* error of the invocation is logged and thrown again
checkPortOrThrow(resp) ==
  IF resp = "error" THEN "throws" ELSE IF resp = "open" THEN "open" ELSE "closed"

\* the CheckResult of a check of selection sel that came back at time t
CheckResult(sel, result, t) ==
  [host |-> IF sel.ip # "" THEN sel.ip ELSE CheckerBRANDS[sel.brand],
   port |-> sel.port, brand |-> sel.brand, status |-> result, timestamp |-> t]

\* variant: the ten newest entries are kept behind the new one
Prepend_KeepsTen(prev, checkResult) ==
  <<checkResult>> \o SubSeq(prev, 1, Min(Len(prev), HistoryKept + 1))

\* [checkResult, ...prev.slice(0, 9)]
Prepend(prev, checkResult) == <<checkResult>> \o SubSeq(prev, 1, Min(Len(prev), HistoryKept))

Remove(seq, i) == SubSeq(seq, 1, i - 1) \o SubSeq(seq, i + 1, Len(seq))

notScVars == <<monitorVars, cpVars, waVars, wmVars>>

\* the debounced effect runs for a render with port p (the brand is never
\* empty): the cleanup of the previous run has cleared its timer; without a
\* port the status is idle, otherwise the timer is set
DebouncedEffect(p) ==
  /\ checkerTimer' = IF p = "" THEN "none" ELSE "pending"
  /\ checkerStatus' = IF p = "" THEN "idle" ELSE checkerStatus

\* the effects after the first render: setPort of the port already shown,
\* and the debounced effect
CheckerMountEffect ==
  /\ checkerPhase = "rendered"
  /\ checkerPhase' = "mounted"
  /\ DebouncedEffect(checkerPort)
  /\ checkerEv' = "none"
  /\ UNCHANGED <<selectedBrand, selectedIp, checkerPort, history, checks, selections, clock,
                 ownResult, notScVars>>

\* an input changes the selection and the component renders with it
SelectionChanges(brand, p, ip, limit) ==
  /\ checkerPhase = "mounted"
  /\ selections < limit
  /\ selectedBrand' = brand
  /\ checkerPort' = p
  /\ selectedIp' = ip
  /\ selections' = selections + 1
  /\ DebouncedEffect(p)
  /\ ownResult' = "none"
  /\ checkerEv' = "none"
  /\ UNCHANGED <<checkerPhase, history, checks, clock, notScVars>>

\* setSelectedBrand; the effect of line 474 sets the port to the brand's default
SelectBrand(brand, limit) ==
  brand # selectedBrand /\ SelectionChanges(brand, DefaultPort(brand), selectedIp, limit)

\* setSelectedIp
SelectIp(ip, limit) ==
  ip # selectedIp /\ SelectionChanges(selectedBrand, checkerPort, ip, limit)

\* setPort from the port input
SetPort(p, limit) ==
  p # checkerPort /\ SelectionChanges(selectedBrand, p, selectedIp, limit)

\* 800 ms have passed since the effect ran: the timer callback runs up to
\* its await of checkPort (limit bounds the checks in flight)
TimerCallback(limit) ==
  /\ checkerTimer = "pending"
  /\ Len(checks) < limit
  /\ checkerTimer' = "none"
  /\ checkerStatus' = "checking"
  /\ checks' = Append(checks, CheckerSelection)
  /\ checkerEv' = "none"
  /\ UNCHANGED <<checkerPhase, selectedBrand, selectedIp, checkerPort, history, selections,
                 clock, ownResult, notScVars>>

\* the check in flight at position i comes back with one of resps: the rest
\* of the timer callback runs, with the selection of its closure
CheckReturns(i, resps) ==
  /\ i \in 1..Len(checks)
  /\ \E resp \in resps :
       LET sel == checks[i]
           result == checkPortOrThrow(resp)
           shown == IF result = "throws" THEN "closed" ELSE result
       IN  /\ checkerStatus' = shown
           /\ history' = IF result = "throws" THEN history
                         ELSE Prepend(history, CheckResult(sel, result, clock + 1))
           /\ ownResult' = IF sel = CheckerSelection THEN shown ELSE ownResult
           /\ checkerEv' = IF result = "throws" THEN "failed" ELSE "completed"
  /\ clock' = clock + 1
  /\ checks' = Remove(checks, i)
  /\ UNCHANGED <<checkerPhase, selectedBrand, selectedIp, checkerPort, checkerTimer,
                 selections, notScVars>>

DebounceTimerFires == TimerCallback(MaxChecksInFlight)

CheckerNext ==
  \/ CheckerMountEffect
  \/ \E brand \in DOMAIN CheckerBRANDS : SelectBrand(brand, MaxSelections)
  \/ \E ip \in IpOptions : SelectIp(ip, MaxSelections)
  \/ \E p \in PortInputs : SetPort(p, MaxSelections)
  \/ DebounceTimerFires
  \/ \E i \in 1..MaxChecksInFlight : CheckReturns(i, Responses)

CheckerSpec == Init /\ [][CheckerNext]_vars

\* runs long enough to fill the history: the IP address is changed again
\* and again, one check is in flight at a time, and a check comes back open
\* or fails
DebounceTimerFiresAlone == TimerCallback(1)

CheckerHistoryNext ==
  \/ CheckerMountEffect
  \/ \E ip \in IpOptions : SelectIp(ip, HistorySelections)
  \/ DebounceTimerFiresAlone
  \/ CheckReturns(1, {"open", "error"})

CheckerHistorySpec == Init /\ [][CheckerHistoryNext]_vars

(* ------------------------------ properties ------------------------------ *)
\* the last step did e for endpoint k
Did(e, k) == <<e, k>> \in ev

\* the last step ran the tracker update of endpoint k
Applied(k) ==
  Did("openedToClosed", k) \/ Did("stillClosed", k) \/ Did("closedToOpen", k) \/ Did("stillOpen", k)

Elapsed(k) == now - closedTimestamps[k]

\* C1: in an episode (a maximal run of closed results applied to an
\* endpoint) send-email-alert is invoked at most once for the endpoint,
\* however many cycles see it closed and however they interleave.
C1_AtMostOneEmailPerEpisode == \A k \in Keys : emailCount[k] <= 1

\* an escalated endpoint is seen closed again, with no second invocation
C1_Witness ==
  \E k \in Keys : emailCount[k] = 1 /\ Did("stillClosed", k) /\ ~Did("email", k)

\* C2: the flag is true, and the notifier was invoked, only with closedSince
\* recorded and now - closedSince at least 120000 ms.
C2_EscalationOnlyPastThreshold ==
  \A k \in Keys :
    (emailSent[k] = "true" \/ emailCount[k] > 0 \/ Did("email", k))
      => Truthy(closedTimestamps[k]) /\ Elapsed(k) >= THRESHOLD

\* a closed result at 90000 ms leaves the flag false, and the invocation
\* happens in a step that sees 120000 ms or more
C2_Witness ==
  /\ \E k \in Keys : Did("email", k) /\ emailSent[k] = "true" /\ Elapsed(k) >= THRESHOLD
  /\ \E k \in Keys : Did("stillClosed", k) /\ emailSent[k] = "false"
                      /\ Elapsed(k) = THRESHOLD - INTERVAL

\* a cycle still holds an open result for endpoint k that it has not applied
StaleOpen(k) ==
  \E c \in Cycles :
    /\ cb[c] = k[1]
    /\ \/ k[2] = "brainNet" /\ pc[c] = "liveProbe" /\ brainNetResult[c] = "open"
       \/ k[2] = "liveIp" /\ pc[c] = "bnEmail" /\ liveIpResult[c] = "open"

\* C3: for an endpoint with a configured host that answers closed from some
\* point on (the port is closed and no open answer is left to be applied),
\* the notifier is eventually invoked, when that point leaves LiveMargin ms
\* before the clock of the model stops.
C3_EventuallyEscalated ==
  \A k \in Configured :
    [](down[k] /\ ~StaleOpen(k) /\ now + LiveMargin <= LiveMaxTime
         => <>(emailCount[k] > 0 /\ emailSent[k] = "true"))

\* the port closed early enough and the endpoint is escalated
C3_Witness ==
  \E k \in Configured :
    down[k] /\ Did("email", k) /\ firstClosedAt[k] + LiveMargin <= LiveMaxTime

\* C4 as claimed: the notifier call of an episode happens at an elapsed
\* closed duration inside [120000, 150000) ms.
C4_EmailInsideWindow ==
  \A k \in Keys : Did("email", k) => Elapsed(k) >= THRESHOLD /\ Elapsed(k) < THRESHOLD + INTERVAL

\* C4 amended: the notifier call happens at the first closed result applied
\* at an elapsed closed duration of 120000 ms or more: never below, and no
\* closed result at 120000 ms or more leaves the episode without its call.
C4_EmailAtFirstObservationPastThreshold ==
  \A k \in Keys :
    /\ Did("email", k) => Elapsed(k) >= THRESHOLD
    /\ (Did("stillClosed", k) \/ Did("openedToClosed", k)) /\ Elapsed(k) >= THRESHOLD
         => emailSent[k] = "true" /\ emailCount[k] = 1

\* the call of an episode made 150000 ms or more after closedSince
C4_Witness == \E k \in Keys : Did("email", k) /\ Elapsed(k) >= THRESHOLD + INTERVAL

\* C5 as claimed: status closed exactly when closedSince is recorded.
C5_ClosedIffClosedSince ==
  \A k \in Keys : brandStatuses[k] = "closed" <=> Truthy(closedTimestamps[k])

\* C5 amended: the equivalence holds right after a step that sets the
\* endpoint's status from a probe result and runs its tracker update; for a
\* Brain Net endpoint, in every state, closed implies closedSince recorded
\* and closedSince recorded implies closed or checking.
C5_ClosedIffClosedSinceWhenApplied ==
  \A k \in Keys :
    /\ Did("status", k) /\ Applied(k)
         => (brandStatuses[k] = "closed" <=> Truthy(closedTimestamps[k]))
    /\ k[2] = "brainNet" =>
         /\ brandStatuses[k] = "closed" => Truthy(closedTimestamps[k])
         /\ Truthy(closedTimestamps[k]) => brandStatuses[k] \in {"closed", "checking"}

\* a recovery: status open and closedSince cleared by one step
C5_Witness ==
  \E k \in Keys : Did("status", k) /\ Did("closedToOpen", k)
                   /\ brandStatuses[k] = "open" /\ ~Truthy(closedTimestamps[k])

\* C6 as claimed: escalationSent implies status closed, and the flag stops
\* being true exactly in the step in which the status becomes open.
C6_EscalationSentImpliesClosed ==
  /\ [](\A k \in Keys : emailSent[k] = "true" => brandStatuses[k] = "closed")
  /\ [][\A k \in Keys :
          emailSent[k] = "true" =>
            (emailSent'[k] # "true"
               <=> brandStatuses[k] # "open" /\ brandStatuses'[k] = "open")]_vars

\* C6 amended: escalationSent implies closedSince recorded, and the flag
\* stops being true exactly in the step that applies an open result to the
\* endpoint (the step that clears closedSince).
C6_EscalationSentUntilOpenApplied ==
  /\ [](\A k \in Keys : emailSent[k] = "true" => Truthy(closedTimestamps[k]))
  /\ [][\A k \in Keys :
          /\ emailSent[k] = "true" /\ emailSent'[k] # "true" => <<"closedToOpen", k>> \in ev'
          /\ emailSent[k] = "true" /\ <<"closedToOpen", k>> \in ev' => emailSent'[k] = "unset"]_vars

\* an escalated endpoint recovers and its flag is cleared
C6_Witness == \E k \in Keys : Did("escalationCleared", k) /\ emailSent[k] = "unset"

\* C7: a closed result applied to an endpoint without closedSince records
\* closedSince = now, escalationSent = false and status closed, starts the
\* endpoint's alarm and invokes no notifier.
C7_OpenedToClosed ==
  \A k \in Keys :
    Did("openedToClosed", k) =>
      /\ closedTimestamps[k] = now
      /\ emailSent[k] = "false"
      /\ brandStatuses[k] = "closed"
      /\ Did("alarmStart", k) /\ alarmTimers[k] # {}
      /\ ~Did("email", k)

\* C8: closedSince stays what the episode's first closed result recorded,
\* and the notifier gets that value (as toLocaleString prints it).
C8_ClosedSinceIsFirstObservation ==
  \A k \in Keys :
    /\ Truthy(closedTimestamps[k]) => closedTimestamps[k] = firstClosedAt[k]
    /\ emailArg[k] # -1 => emailArg[k] = ToLocaleString(firstClosedAt[k])

\* the notifier is invoked in a later cycle than the one that recorded closedSince
C8_Witness ==
  \E k \in Keys : Did("email", k) /\ Did("stillClosed", k)
                   /\ firstClosedAt[k] < now /\ emailArg[k] = ToLocaleString(firstClosedAt[k])

\* C9: an open result applied to an endpoint with closedSince clears
\* closedSince and escalationSent, leaves status open and invokes no notifier.
C9_ClosedToOpen ==
  \A k \in Keys :
    Did("closedToOpen", k) =>
      /\ ~Truthy(closedTimestamps[k])
      /\ emailSent[k] = "unset"
      /\ brandStatuses[k] = "open"
      /\ ~Did("email", k)

\* C10: after the step that applies an open result to an endpoint whose
\* alarm is running, no alarm timer of the endpoint is live.
C10_AlarmStoppedOnRecovery ==
  \A k \in Keys : Did("closedToOpen", k) => alarmTimers[k] = {}

\* C11: a step that applies an open result to an endpoint without closedSince
\* (stillOpen), the first time or again, starts no alarm, invokes no notifier
\* and leaves the endpoint's closedSince, escalationSent and alarm timers as
\* they were.
C11_StillOpenChangesNothing ==
  [][\A k \in Keys :
       <<"stillOpen", k>> \in ev' =>
         /\ closedTimestamps'[k] = closedTimestamps[k] /\ ~Truthy(closedTimestamps'[k])
         /\ emailSent'[k] = emailSent[k]
         /\ alarmTimers'[k] = alarmTimers[k] /\ alarmIntervals'[k] = alarmIntervals[k]
         /\ <<"alarmStart", k>> \notin ev' /\ <<"email", k>> \notin ev'
         /\ emailCount'[k] = 0]_vars

\* no port has closed so far, a cycle has applied every endpoint's open
\* result before, and an open result is applied again
C11_Witness ==
  \E k \in Configured :
    /\ flips = 0 /\ now >= StartTime + (MaxCycles + 1) * INTERVAL
    /\ Did("stillOpen", k) /\ ~Truthy(closedTimestamps[k]) /\ emailSent[k] = "unset"

\* C12: at most one checkAllPorts invocation is running at any time, so no
\* two probes of one endpoint are in flight together.
C12_NoOverlappingCycles ==
  /\ Cardinality({c \in Cycles : pc[c] # "idle"}) <= 1
  /\ \A c, d \in Cycles :
       c # d /\ cb[c] = cb[d] /\ pc[c] \in {"bnProbe", "liveProbe"} => pc[d] # pc[c]

\* C13 as claimed: an endpoint's result is applied before the next endpoint
\* is probed; a brand's Brain Net result is applied before the brand's Live IP
\* endpoint is probed.
C13_EndpointAtATime ==
  \A c \in Cycles : pc[c] = "liveProbe" => brainNetResult[c] \notin {"open", "closed"}

\* C13 amended: a cycle works brand by brand.  In one step it marks both
\* endpoints of the brand checking and probes the first one that has a host;
\* while the Live IP endpoint is probed the Brain Net result is held, not yet
\* applied; both statuses are set and the Brain Net result is applied after
\* the Live IP probe has returned; the Live IP result is applied after the
\* Brain Net notifier call has returned, and before the next brand is begun.
C13_BrandAtATime ==
  /\ [](\A c \in Cycles :
         /\ pc[c] = "bnProbe" =>
               Key(cb[c], "brainNet") \in Configured /\ brainNetResult[c] = "none"
         /\ pc[c] = "liveProbe" =>
               brainNetResult[c] \in (IF Key(cb[c], "brainNet") \in Configured
                                      THEN {"open", "closed"} ELSE {"idle"})
         /\ pc[c] = "bnEmail" =>
               liveIpResult[c] \in {"open", "closed"})
  /\ [](\A b \in brandKeys :
         /\ Did("probe", Key(b, "brainNet")) =>
               Did("checking", Key(b, "brainNet")) /\ Did("checking", Key(b, "liveIp"))
         /\ Did("probe", Key(b, "liveIp")) /\ Key(b, "brainNet") \notin Configured =>
               Did("checking", Key(b, "brainNet")) /\ Did("checking", Key(b, "liveIp"))
         /\ Applied(Key(b, "brainNet")) =>
               Did("status", Key(b, "brainNet")) /\ Did("status", Key(b, "liveIp")))
  /\ [][\A c \in Cycles :
          /\ pc[c] = "liveProbe" /\ pc'[c] # "liveProbe" =>
                /\ <<"status", Key(cb[c], "liveIp")>> \in ev'
                /\ brainNetResult[c] = "closed" =>
                      {<<"openedToClosed", Key(cb[c], "brainNet")>>,
                       <<"stillClosed", Key(cb[c], "brainNet")>>} \cap ev' # {}
          /\ cb[c] # 0 /\ cb'[c] # cb[c] =>
                \/ pc[c] = "liveEmail"
                \/ \E e \in {"openedToClosed", "stillClosed", "closedToOpen", "stillOpen"} :
                     <<e, Key(cb[c], "liveIp")>> \in ev']_vars

\* the Live IP endpoint is being probed while the closed Brain Net result of
\* the same brand is held, not yet applied
C13_Witness ==
  \E c \in Cycles : /\ pc[c] = "liveProbe" /\ brainNetResult[c] = "closed"
                     /\ ~Truthy(closedTimestamps[Key(cb[c], "brainNet")])

\* C15 as claimed: the status of an endpoint without a configured host is
\* idle in every reachable state.
C15_UnconfiguredAlwaysIdle ==
  \A k \in Keys \ Configured : brandStatuses[k] = "idle"

\* C15 amended: the status of a Brain Net endpoint whose host is the empty
\* string (the registry has no other endpoint without a host) is never open
\* or closed; it is checking only while a cycle is between marking the
\* endpoint's brand checking and setting the brand's statuses (it is awaiting
\* the brand's Live IP probe), and idle otherwise.
C15_UnconfiguredIdleOrChecking ==
  \A k \in Keys \ Configured :
    /\ brandStatuses[k] \in {"idle", "checking"}
    /\ brandStatuses[k] = "checking" => \E c \in Cycles : cb[c] = k[1] /\ pc[c] = "liveProbe"
    /\ Did("status", k) => brandStatuses[k] = "idle"
    /\ ~Truthy(closedTimestamps[k]) /\ emailSent[k] = "unset" /\ lastApplied[k] = "none"

\* a cycle has set the statuses of the brand whose Brain Net host is empty
C15_Witness ==
  \E k \in Keys \ Configured :
    Did("status", k) /\ brandStatuses[k] = "idle" /\ brandStatuses[Key(k[1], "liveIp")] = "open"

\* C16: the cleanup cancels every alarm timer that is live when the component
\* unmounts.
C16_UnmountCancelsAlarms ==
  [][phase = "mounted" /\ phase' = "unmounted" => \A k \in Keys : alarmTimers'[k] = {}]_vars

\* C17: after the cleanup has run no checkAllPorts invocation begins; one in
\* flight goes on.
C17_NoCycleStartsAfterUnmount ==
  [][phase = "unmounted" => \A c \in Cycles : pc[c] = "idle" => pc'[c] = "idle"]_vars

\* the component is unmounted, the scheduler's period has passed since, no
\* invocation is running, and one that was in flight went on after the unmount
C17_Witness ==
  /\ phase = "unmounted" /\ ~Truthy(interval) /\ now >= nextTick + INTERVAL
  /\ \A c \in Cycles : pc[c] = "idle"
  /\ \E k \in Keys : Did("status", k)

\* C19: each endpoint has at most one live alarm timer, so there are never
\* more live alarm timers than endpoints (2 x the number of brands).
C19_AtMostOneAlarmPerEndpoint ==
  /\ \A k \in Keys : Cardinality(alarmTimers[k]) <= 1
  /\ Cardinality({<<k, id>> \in Keys \X (1..(2 * (MaxIntervals + 2))) : id \in alarmTimers[k]})
       <= 2 * Len(BRANDS)

\* C18: when the notifier invocation a cycle awaits fails, the cycle goes on
\* (the brand's Live IP result is applied, or the next brand is begun),
\* escalationSent is not touched, and as long as the endpoint has not
\* recovered the flag stays true and no further invocation is made for it.
C18_NotifierFailureSwallowed ==
  /\ [][\A c \in Cycles :
          pc[c] \in {"bnEmail", "liveEmail"} /\ pc'[c] # pc[c] =>
            LET k == Key(cb[c], IF pc[c] = "bnEmail" THEN "brainNet" ELSE "liveIp")
            IN  <<"notifierFailed", k>> \in ev' =>
                  /\ emailSent'[k] = emailSent[k]
                  /\ <<"email", k>> \notin ev'
                  /\ pc[c] = "bnEmail" =>
                        \E e \in {"openedToClosed", "stillClosed", "closedToOpen", "stillOpen"} :
                          <<e, Key(cb[c], "liveIp")>> \in ev'
                  /\ pc[c] = "liveEmail" =>
                        IF cb[c] < Len(BRANDS)
                        THEN cb'[c] = cb[c] + 1 /\ pc'[c] \in {"bnProbe", "liveProbe"}
                        ELSE pc'[c] = "idle"]_vars
  /\ [](\A k \in Keys : notifierFailed[k] => emailSent[k] = "true" /\ emailCount[k] = 1)
  /\ [][\A k \in Keys : notifierFailed[k] => <<"email", k>> \notin ev']_vars

\* the notifier invocation of the episode has failed and a later cycle sees
\* the endpoint still closed, without another invocation
C18_Witness ==
  \E k \in Keys : /\ notifierFailed[k] /\ Did("stillClosed", k) /\ ~Did("email", k)
                   /\ emailSent[k] = "true" /\ Elapsed(k) >= THRESHOLD + INTERVAL

\* C20: check-port answers a request whose port is missing or lies outside
\* [1, 65535] with HTTP 400 and makes no connection attempt for it.  The
\* request is one whose body the handler reads: a preflight (OPTIONS) is
\* answered before the body is looked at, and a body that cannot be taken
\* apart has no fields, a port least of all.
C20_InvalidPortRejected ==
  (/\ cpPc \in {"connecting", "done"}
   /\ request.method # "OPTIONS"
   /\ request.json
   /\ (request.body.port = Undefined \/ request.body.port[1] \notin 1..65535))
  => (cpPc = "done" /\ response.status = 400 /\ connects = 0)

\* port 70000 for a known brand has been answered with 400, nothing connected
C20_Witness ==
  /\ cpPc = "done"
  /\ request.method = "POST" /\ request.json
  /\ request.body.brand = "Bareeze"
  /\ request.body.port = <<70000>>
  /\ response.status = 400
  /\ response.error = "Invalid port number"
  /\ connects = 0

C21_UnknownBrandRejected ==
  (/\ cpPc \in {"connecting", "done"}
   /\ request.method # "OPTIONS"
   /\ request.json
   /\ request.body.brand \notin DOMAIN CheckPortBRANDS)
  => (cpPc = "done" /\ response.status = 400 /\ connects = 0)

C23_TimeoutClamped ==
  (/\ cpPc \in {"connecting", "done"}
   /\ request.method # "OPTIONS"
   /\ request.json
   /\ request.body.brand \in DOMAIN CheckPortBRANDS
   /\ request.body.port # Undefined /\ request.body.port[1] \in 1..65535)
  => LET seconds == IF request.body.timeout = Undefined THEN 3 ELSE request.body.timeout[1]
         ms == seconds * 1000
     IN  /\ connects = 1
         /\ connectTo.timeout = (IF ms < 1000 THEN 1000 ELSE IF ms > 30000 THEN 30000 ELSE ms)
         /\ connectTo.timeout \in 1000..30000
         /\ response.status \in {0, 200}

\* a request with timeout 31 has been probed with 30000 ms and answered
C23_Witness ==
  /\ cpPc = "done"
  /\ request.method = "POST" /\ request.json
  /\ request.body.timeout = <<31>>
  /\ connects = 1
  /\ connectTo.timeout = 30000
  /\ response.status = 200

\* C24: checkPortConnection never throws (the handler answers 200 with its
\* result) and the result is the one of the race between connect and timer:
\* while the probe waits neither has happened; it returns open = true exactly
\* when the connect resolves first, open = false with the timed-out message
\* when the timer fires first, open = false with the error text when the
\* connect rejects first; what happens after that does not change the result.
C24_ResultIsTheRaces ==
  /\ [](cpPc = "connecting" => (connect = "pending" /\ timer = "pending"))
  /\ [][/\ (cpPc = "connecting" /\ cpPc' = "done") =>
            /\ response'.status = 200
            /\ response'.open <=> (connect' = "resolved")
            /\ timer' = "fired" =>
                 (~response'.open /\ response'.message = "Connection timed out")
            /\ connect' = "rejected" =>
                 (~response'.open /\ response'.message = "Connection error")
        /\ (cpPc = "done" /\ cpPc' = "done") => response' = response]_vars

\* the timer fired first and the probe returned closed, timed out; the
\* connect resolved after that and the answer is still the same
C24_Witness ==
  /\ cpPc = "done"
  /\ timer = "fired"
  /\ connect = "resolved"
  /\ response.status = 200
  /\ ~response.open
  /\ response.message = "Connection timed out"

\* C25: every probe returns a result no later than the firing of its timeout
\* timer: once the timer has fired the probe has returned, and a probe that
\* has been started returns even when the connect never resolves or rejects.
C25_ProbeReturnsByTimeout ==
  /\ [](timer = "fired" => cpPc = "done")
  /\ (cpPc = "connecting" ~> cpPc = "done")

\* the probe has returned by its timer while the connect is still pending
C25_Witness ==
  /\ cpPc = "done"
  /\ timer = "fired"
  /\ winner = "timeout"
  /\ connect = "pending"
  /\ response.message = "Connection timed out"

\* C29: a check-port request that is accepted (it passes the handler's tests
\* and is probed) makes exactly one connect attempt, whatever the outcome of
\* that attempt: the probe does not retry.
C29_OneConnectPerRequest ==
  /\ connects <= 1
  /\ (cpPc = "connecting" \/ connect # "none") => connects = 1
  /\ (cpPc = "done" /\ request.method # "OPTIONS" /\ response.status = 200) => connects = 1

\* the connect attempt was refused, the probe has returned, and that was the
\* only attempt
C29_Witness ==
  /\ cpPc = "done"
  /\ connect = "rejected"
  /\ winner = "error"
  /\ response.status = 200 /\ ~response.open
  /\ connects = 1

\* the stage at which checkAllPorts starts brand b
FirstStage(b) == IF BRANDS[b].brain_net_ip # "" THEN "bnProbe" ELSE "liveProbe"

\* the endpoint awaited at a probe stage
Probed(stage) == IF stage = "bnProbe" THEN "brainNet" ELSE "liveIp"

\* cycle c takes the step
Moves(c) == pc'[c] # pc[c] \/ cb'[c] # cb[c]

\* C26: every started cycle runs to completion, visiting every brand in
\* registry order and probing each configured endpoint once, whatever probe
\* failures and notifier failures occur; each probe failure is applied to the
\* tracker as a closed result.
C26_CycleCompletes ==
  /\ [][\A c \in Cycles :
         /\ (pc[c] = "idle" /\ Moves(c)) =>
              (cb'[c] = 1 /\ pc'[c] = FirstStage(1) /\ <<"probe", Key(1, Probed(pc'[c]))>> \in ev')
         /\ (pc[c] = "bnProbe" /\ Moves(c)) =>
              /\ cb'[c] = cb[c] /\ pc'[c] = "liveProbe"
              /\ Did("probe", Key(cb[c], "liveIp"))'
              /\ down[Key(cb[c], "brainNet")] => brainNetResult'[c] = "closed"
         /\ (pc[c] = "liveProbe" /\ Moves(c)) =>
              /\ brainNetResult[c] = "closed" => lastApplied'[Key(cb[c], "brainNet")] = "closed"
              /\ down[Key(cb[c], "liveIp")] =>
                   IF pc'[c] = "bnEmail" /\ cb'[c] = cb[c]
                   THEN liveIpResult'[c] = "closed"
                   ELSE lastApplied'[Key(cb[c], "liveIp")] = "closed"
         /\ (pc[c] = "bnEmail" /\ Moves(c) /\ liveIpResult[c] = "closed") =>
              lastApplied'[Key(cb[c], "liveIp")] = "closed"
         /\ (pc[c] \in {"liveProbe", "bnEmail", "liveEmail"} /\ Moves(c)) =>
              \/ /\ cb'[c] = cb[c]
                 /\ \/ pc[c] = "liveProbe" /\ pc'[c] \in {"bnEmail", "liveEmail"}
                    \/ pc[c] = "bnEmail" /\ pc'[c] = "liveEmail"
                 /\ \A k \in Keys : ~Did("probe", k)'
              \/ /\ cb[c] < Len(BRANDS)
                 /\ cb'[c] = cb[c] + 1 /\ pc'[c] = FirstStage(cb'[c])
                 /\ <<"probe", Key(cb'[c], Probed(pc'[c]))>> \in ev'
              \/ /\ cb[c] = Len(BRANDS)
                 /\ pc'[c] = "idle"]_vars
  /\ \A c \in Cycles : (pc[c] # "idle") ~> (pc[c] = "idle")

\* a cycle is in its last brand after a probe of the first brand failed and
\* the notifier failed
C26_Witness ==
  \E c \in Cycles :
    /\ cb[c] = Len(BRANDS)
    /\ pc[c] # "idle"
    /\ \E k \in Configured :
         k[1] = 1 /\ lastApplied[k] = "closed" /\ notifierFailed[k]

\* C27: applying a probe result for one endpoint never changes the
\* closedSince, the escalationSent flag or the alarm timer of any other
\* endpoint, the other role of the same brand included: whatever result is
\* applied for an endpoint in whatever state, the other endpoints' entries
\* are left as they are, and an endpoint's entries change in a step only
\* through the transition of that endpoint itself.
C27_OtherEndpointsUntouched ==
  /\ [](\A key \in Keys : \A result \in {"open", "closed", "idle"} :
         \A k \in Keys \ {key} :
           LET T == HandleResult(TrackerNow, key, result, now)
           IN  /\ T.cts[k] = closedTimestamps[k]
               /\ T.sent[k] = emailSent[k]
               /\ T.timers[k] = alarmTimers[k]
               /\ T.ai[k] = alarmIntervals[k])
  /\ [][\A k \in Keys :
         /\ closedTimestamps'[k] # closedTimestamps[k] =>
              (<<"openedToClosed", k>> \in ev' \/ <<"closedToOpen", k>> \in ev')
         /\ emailSent'[k] # emailSent[k] =>
              (<<"openedToClosed", k>> \in ev' \/ <<"closedToOpen", k>> \in ev'
               \/ <<"email", k>> \in ev')
         /\ alarmTimers'[k] # alarmTimers[k] =>
              (<<"alarmStart", k>> \in ev' \/ <<"alarmStop", k>> \in ev')]_vars

\* the Live IP endpoint of a brand has just gone from open to closed while
\* the brand's Brain Net endpoint, closed since earlier, keeps its closedSince
\* and its alarm
C27_Witness ==
  \E b \in brandKeys :
    /\ Did("openedToClosed", Key(b, "liveIp"))
    /\ Truthy(closedTimestamps[Key(b, "brainNet")])
    /\ closedTimestamps[Key(b, "brainNet")] < closedTimestamps[Key(b, "liveIp")]
    /\ alarmTimers[Key(b, "brainNet")] # {}
    /\ alarmTimers[Key(b, "liveIp")] # {}

\* C28: when either WhatsApp credential (access token or phone-number id) is
\* absent, send-whatsapp-alert makes no call to the messaging API and answers
\* success (HTTP 200, success = true); when both are present and the API
\* answers non-success, it answers an error (HTTP 500).  (The request is one
\* whose body the handler reads.)
C28_WhatsAppCredentials ==
  LET read == waRequest.method # "OPTIONS" /\ waRequest.json
      absent(x) == x = "undefined" \/ x = ""
  IN  /\ (waPc \in {"sending", "done"} /\ read
           /\ (absent(accessToken) \/ absent(phoneNumberId)))
          => (/\ waPc = "done"
              /\ fetches = 0
              /\ waResponse.status = 200
              /\ waResponse.success)
      /\ (waPc = "done" /\ read
           /\ ~absent(accessToken) /\ ~absent(phoneNumberId)
           /\ whatsappResponse \in {"notOk", "notOkNotJson"})
          => (/\ fetches = 1
              /\ waResponse.status = 500
              /\ ~waResponse.success)

\* the access token is set, the phone-number id is not: the request has been
\* answered with success and the messaging API has not been called
C28_Witness ==
  /\ waPc = "done"
  /\ waRequest.method = "POST" /\ waRequest.json
  /\ accessToken = "set"
  /\ phoneNumberId = "undefined"
  /\ fetches = 0
  /\ waResponse.status = 200
  /\ waResponse.success

\* C30: for each endpoint, probe results are applied in the order in which
\* their probes were started: the result applied is the one of the earliest
\* started probe of the endpoint that is still in flight, never one of a
\* probe started later.
C30_AppliedInProbeOrder ==
  [][\A k \in Keys :
       AppliedIn(ev', k) => (inFlight[k] # <<>> /\ inFlight'[k] = Tail(inFlight[k]))]_vars

\* C31: every TCP connection a probe's connect attempt establishes is closed
\* again, also one whose connect resolves after the timeout timer has fired
\* and the probe has returned closed.  conn.close() is the only close in the
\* function and runs in the step that continues the await, so a connection
\* that exists at the end of a step and is not closed is never closed
C31_EstablishedConnectionClosed == connect = "resolved" => conn = "closed"

\* C32: whenever no cycle is running, no endpoint has status checking: an
\* endpoint is checking only while a cycle that marked its brand checking is
\* awaiting one of the brand's probes, and that cycle sets both statuses of
\* the brand to open, closed or idle before it goes on, so before it ends.
C32_NoCheckingWhenIdle ==
  /\ (\A c \in Cycles : pc[c] = "idle") => \A k \in Keys : brandStatuses[k] # "checking"
  /\ \A k \in Keys :
       brandStatuses[k] = "checking"
         => \E c \in Cycles : cb[c] = k[1] /\ pc[c] \in {"bnProbe", "liveProbe"}

\* a cycle has just set the statuses of the last brand and ended: no cycle
\* is running, every endpoint with a host is open or closed and the one
\* without is idle
C32_Witness ==
  /\ \A c \in Cycles : pc[c] = "idle"
  /\ \A ipType \in IpTypes : Did("status", Key(Len(BRANDS), ipType))
  /\ \A k \in Configured : brandStatuses[k] \in {"open", "closed"}
  /\ \A k \in Keys \ Configured : brandStatuses[k] = "idle"

\* C33: in the WhatsApp-alerting monitor the closed counter of an endpoint
\* equals the number of consecutive closed results applied to the endpoint
\* since its last open result; an open result resets it to 0.
C33_CounterCountsClosedResults == \A k \in Keys : closedCounts[k] = closedRun[k]

C35_StatusOfCurrentSelection ==
  (checkerPhase = "mounted" /\ checkerTimer = "none" /\ checks = <<>> /\ checkerPort # "")
    => checkerStatus = ownResult

\* C36: the history never holds more than 10 entries and is ordered newest
\* first; a check that completes prepends exactly one entry, its own, and
\* drops the oldest one when the list already has 10; a failed check, and
\* every other step, leaves the list as it is.
C36_HistoryNewestFirstAtMostTen ==
  /\ [](/\ Len(history) <= 10
        /\ \A i \in 1..(Len(history) - 1) : history[i].timestamp > history[i + 1].timestamp)
  /\ [][IF checkerEv' = "completed"
        THEN /\ Len(history') = Min(Len(history) + 1, 10)
             /\ history'[1].timestamp = clock'
             /\ \A i \in 2..Len(history') : history'[i] = history[i - 1]
        ELSE history' = history]_vars

\* the history is full, the last step was a check that completed and pushed
\* the oldest entry out, and a check has failed on the way
C36_Witness ==
  /\ Len(history) = 10
  /\ checkerEv = "completed"
  /\ history[1].timestamp = clock
  /\ history[10].timestamp > 1
  /\ clock > 11

====
